---- MODULE Spec2Model ----
(***************************************************************************)
(* Model of src/app.py: the MoodDetector scoring function and the two      *)
(* Flask routes /api/analyze and /api/health that share one detector.      *)
(*                                                                         *)
(* Numbers.  Python computes on floats; the model computes on exact        *)
(* rationals [n |-> numerator, d |-> denominator], d > 0, in lowest terms, *)
(* so that two equal numbers are equal records.  IEEE rounding error (a    *)
(* few units in the last place) is outside the model.                      *)
(*                                                                         *)
(* JSON.  A JSON value is a record [t, v, m]: t is its type ("num", "str", *)
(* "null", "obj", "arr", or "malformed" for a body that does not parse),   *)
(* v the number of a "num", m the members of an "obj" (a function from the *)
(* keys that are present to their values).                                 *)
(***************************************************************************)
EXTENDS Integers, FiniteSets, Sequences, TLC

VARIABLES weights, pc, body, frame, response

vars == <<weights, pc, body, frame, response>>

----------------------------------------------------------------------------
(* Exact rational arithmetic standing for Python's float arithmetic.       *)

Abs(i) == IF i < 0 THEN -i ELSE i

RECURSIVE GCD(_, _)
GCD(a, b) == IF b = 0 THEN a ELSE GCD(b, a % b)

Rat(n, d) ==
    LET g == GCD(Abs(n), d)
    IN  [n |-> n \div g, d |-> d \div g]

Zero == Rat(0, 1)
One == Rat(1, 1)

RAdd(a, b) == Rat(a.n * b.d + b.n * a.d, a.d * b.d)
RSub(a, b) == Rat(a.n * b.d - b.n * a.d, a.d * b.d)
RMul(a, b) == Rat(a.n * b.n, a.d * b.d)
\* a / b for b # 0 (Python raises ZeroDivisionError for b = 0, see Normalize)
RDiv(a, b) ==
    IF b.n > 0 THEN Rat(a.n * b.d, a.d * b.n)
               ELSE Rat((0 - a.n) * b.d, a.d * (0 - b.n))
RLt(a, b) == a.n * b.d < b.n * a.d
RGt(a, b) == RLt(b, a)
RLe(a, b) == ~RLt(b, a)

\* Python's two-argument min and max: the first argument unless the second
\* is strictly smaller (larger).
min(a, b) == IF RLt(b, a) THEN b ELSE a
max(a, b) == IF RGt(b, a) THEN b ELSE a

\* int(x): truncation toward zero, an integer
int(x) == IF x.n >= 0 THEN x.n \div x.d ELSE 0 - ((0 - x.n) \div x.d)

\* round(x, 2): the nearest multiple of 1/100, ties to even
round2(x) ==
    LET q == (100 * x.n) \div x.d
        r == (100 * x.n) % x.d
        k == IF 2 * r < x.d THEN q
             ELSE IF 2 * r > x.d THEN q + 1
             ELSE IF q % 2 = 0 THEN q ELSE q + 1
    IN  Rat(k, 100)

\* Python's max and min on the integer stress level
imax(a, b) == IF b > a THEN b ELSE a
imin(a, b) == IF b < a THEN b ELSE a

----------------------------------------------------------------------------
(* JSON values.                                                            *)

EmptyMembers == [k \in {} |-> Zero]

Num(n, d) == [t |-> "num", v |-> Rat(n, d), m |-> EmptyMembers]
Str == [t |-> "str", v |-> Zero, m |-> EmptyMembers]
Null == [t |-> "null", v |-> Zero, m |-> EmptyMembers]
Arr == [t |-> "arr", v |-> Zero, m |-> EmptyMembers]
Malformed == [t |-> "malformed", v |-> Zero, m |-> EmptyMembers]
Obj(members) == [t |-> "obj", v |-> Zero, m |-> members]

\* Mutant of Get: dict.get(key), which gives None for an absent key
Get_nodefault(dict, key, default) ==
    IF key \in DOMAIN dict.m THEN dict.m[key] ELSE Null

\* dict.get(key, default)
Get(dict, key, default) ==
    IF key \in DOMAIN dict.m THEN dict.m[key] ELSE default

----------------------------------------------------------------------------
(* MoodDetector.                                                           *)

\* MoodDetector.__init__: self.weights
InitWeights ==
    [facial_smile |-> Rat(45, 100),
     facial_stress |-> Rat(30, 100),
     typing_speed |-> Rat(15, 100),
     typing_accuracy |-> Rat(10, 100)]

\* Mutant of normalize: the lower clamp is missing
normalize_nofloor(x) == min(One, x)

\* Feature normalization: max(0, min(1, x))
normalize(x) == max(Zero, min(One, x))

\* The four scores of the feature normalization
Scores(avg_smile, avg_stress_indicator, wpm, accuracy) ==
    [smile_score |-> normalize(avg_smile),
     stress_score |-> normalize(avg_stress_indicator),
     typing_score |-> normalize(RDiv(wpm, Rat(80, 1))),
     accuracy_score |-> normalize(RDiv(accuracy, Rat(100, 1)))]

\* Mutant of happy_raw: the smile term copied from the stressed formula
happy_raw_inverted(w, sc) ==
    RAdd(RAdd(RMul(RMul(w.facial_smile, RSub(One, sc.smile_score)), Rat(2, 1)),
              RMul(RMul(w.typing_speed, sc.typing_score), Rat(5, 10))),
         RMul(RMul(w.typing_accuracy, sc.accuracy_score), Rat(3, 10)))

\* happy_prob before the division by total
happy_raw(w, sc) ==
    RAdd(RAdd(RMul(RMul(w.facial_smile, sc.smile_score), Rat(2, 1)),
              RMul(RMul(w.typing_speed, sc.typing_score), Rat(5, 10))),
         RMul(RMul(w.typing_accuracy, sc.accuracy_score), Rat(3, 10)))

\* stressed_prob before the division by total
stressed_raw(w, sc) ==
    RAdd(RAdd(RMul(RMul(w.facial_stress, sc.stress_score), Rat(2, 1)),
              RMul(RMul(w.typing_speed, RSub(One, sc.typing_score)), Rat(5, 10))),
         RMul(RMul(w.typing_accuracy, RSub(One, sc.accuracy_score)), Rat(3, 10)))

\* total = happy_prob + stressed_prob + 0.2, on the values before the division
Total(happy, stressed) == RAdd(RAdd(happy, stressed), Rat(2, 10))

\* Normalize probabilities (total # 0): the three divisions
Probabilities(happy, stressed, total) ==
    [happy_prob |-> RDiv(happy, total),
     stressed_prob |-> RDiv(stressed, total),
     neutral_prob |-> RDiv(Rat(2, 10), total)]

\* Mutant of DetermineMood: the third rule does not test smile_score
DetermineMood_nosmile(p, sc) ==
    IF RGt(p.happy_prob, Rat(5, 10)) /\ RGt(sc.smile_score, Rat(6, 10))
    THEN [mood |-> "happy", confidence |-> p.happy_prob]
    ELSE IF RGt(p.stressed_prob, Rat(5, 10)) /\ RGt(sc.stress_score, Rat(6, 10))
    THEN [mood |-> "stressed", confidence |-> p.stressed_prob]
    ELSE IF RGt(p.happy_prob, p.stressed_prob)
    THEN [mood |-> "happy", confidence |-> p.happy_prob]
    ELSE [mood |-> "neutral", confidence |-> p.neutral_prob]

\* Determine mood: the if / elif / elif / else chain
DetermineMood(p, sc) ==
    IF RGt(p.happy_prob, Rat(5, 10)) /\ RGt(sc.smile_score, Rat(6, 10))
    THEN [mood |-> "happy", confidence |-> p.happy_prob]
    ELSE IF RGt(p.stressed_prob, Rat(5, 10)) /\ RGt(sc.stress_score, Rat(6, 10))
    THEN [mood |-> "stressed", confidence |-> p.stressed_prob]
    ELSE IF RGt(p.happy_prob, p.stressed_prob) /\ RGt(sc.smile_score, Rat(5, 10))
    THEN [mood |-> "happy", confidence |-> p.happy_prob]
    ELSE [mood |-> "neutral", confidence |-> p.neutral_prob]

\* Calculate stress level (0-100): int(...) and the clamp
StressLevel(sc, voice_level) ==
    LET raw == int(RSub(RAdd(RAdd(RAdd(RMul(sc.stress_score, Rat(40, 1)),
                                       RMul(RSub(One, sc.typing_score), Rat(20, 1))),
                                  RMul(RSub(One, sc.accuracy_score), Rat(15, 1))),
                             RDiv(voice_level, Rat(5, 1))),
                        RMul(sc.smile_score, Rat(25, 1))))
    IN  imax(0, imin(100, raw))

\* Mutant of Adjust: the happy branch subtracts without the floor at 0
Adjust_nofloor(mood, stress_level, facial_confidence, sc) ==
    IF RGt(facial_confidence, Rat(6, 10))
    THEN IF RGt(sc.smile_score, Rat(7, 10))
         THEN [mood |-> "happy", stress_level |-> stress_level - 20]
         ELSE IF RGt(sc.stress_score, Rat(7, 10))
         THEN [mood |-> "stressed", stress_level |-> imin(100, stress_level + 15)]
         ELSE [mood |-> mood, stress_level |-> stress_level]
    ELSE [mood |-> mood, stress_level |-> stress_level]

\* Mutant of Adjust: the second branch is an if, not an elif
Adjust_bothbranches(mood, stress_level, facial_confidence, sc) ==
    LET first == IF RGt(facial_confidence, Rat(6, 10)) /\ RGt(sc.smile_score, Rat(7, 10))
                 THEN [mood |-> "happy", stress_level |-> imax(0, stress_level - 20)]
                 ELSE [mood |-> mood, stress_level |-> stress_level]
    IN  IF RGt(facial_confidence, Rat(6, 10)) /\ RGt(sc.stress_score, Rat(7, 10))
        THEN [mood |-> "stressed", stress_level |-> imin(100, first.stress_level + 15)]
        ELSE first

\* Adjust based on facial confidence: mood and stress_level after the override
Adjust(mood, stress_level, facial_confidence, sc) ==
    IF RGt(facial_confidence, Rat(6, 10))
    THEN IF RGt(sc.smile_score, Rat(7, 10))
         THEN [mood |-> "happy", stress_level |-> imax(0, stress_level - 20)]
         ELSE IF RGt(sc.stress_score, Rat(7, 10))
         THEN [mood |-> "stressed", stress_level |-> imin(100, stress_level + 15)]
         ELSE [mood |-> mood, stress_level |-> stress_level]
    ELSE [mood |-> mood, stress_level |-> stress_level]

\* The dict that analyze_mood returns
Result(mood, stress_level, confidence, p) ==
    [mood |-> mood,
     stressLevel |-> stress_level,
     confidence |-> confidence,
     probabilities |-> [happy |-> round2(p.happy_prob),
                        stressed |-> round2(p.stressed_prob),
                        neutral |-> round2(p.neutral_prob)]]

NoProbabilities == [happy_prob |-> Zero, stressed_prob |-> Zero, neutral_prob |-> Zero]
NoScores == Scores(Zero, Zero, Zero, Zero)
NoResult == Result("none", 0, Zero, NoProbabilities)

\* The outcome of one call of analyze_mood: the exception it raised, or its
\* locals and the dict it returned.
Frame(exc, fc, sc, total, p, mood5, s6, ret) ==
    [raised |-> exc # "", exc |-> exc, facial_confidence |-> fc, scores |-> sc,
     total |-> total, probs |-> p, mood5 |-> mood5, s6 |-> s6, ret |-> ret]

Raise(exc) == Frame(exc, Zero, NoScores, Zero, NoProbabilities, "none", 0, NoResult)

NoFrame == Raise("none")

\* MoodDetector.analyze_mood(data), reading self.weights = w
analyze_mood(w, data) ==
    IF data.t # "obj" THEN Raise("AttributeError")
    ELSE
    LET facial_data == Get(data, "facial", Obj(EmptyMembers))
        typing_data == Get(data, "typing", Obj(EmptyMembers))
        voice_data == Get(data, "voice", Obj(EmptyMembers))
    IN
    IF facial_data.t # "obj" \/ typing_data.t # "obj" \/ voice_data.t # "obj"
    THEN Raise("AttributeError")
    ELSE
    LET avg_smile == Get(facial_data, "avgSmile", Num(5, 10))
        avg_stress_indicator == Get(facial_data, "avgStressIndicator", Num(5, 10))
        facial_confidence == Get(facial_data, "facialConfidence", Num(0, 1))
        wpm == Get(typing_data, "wpm", Num(0, 1))
        accuracy == Get(typing_data, "accuracy", Num(0, 1))
        voice_level == Get(voice_data, "avgVoiceLevel", Num(50, 1))
    IN
    IF \E x \in {avg_smile, avg_stress_indicator, facial_confidence,
                 wpm, accuracy, voice_level} : x.t # "num"
    THEN Raise("TypeError")
    ELSE
    LET sc == Scores(avg_smile.v, avg_stress_indicator.v, wpm.v, accuracy.v)
        happy == happy_raw(w, sc)
        stressed == stressed_raw(w, sc)
        total == Total(happy, stressed)
    IN
    IF total.n = 0 THEN Raise("ZeroDivisionError")
    ELSE
    LET p == Probabilities(happy, stressed, total)
        dm == DetermineMood(p, sc)
        s6 == StressLevel(sc, voice_level.v)
        adj == Adjust(dm.mood, s6, facial_confidence.v, sc)
    IN  Frame("", facial_confidence.v, sc, total, p, dm.mood, s6,
              Result(adj.mood, adj.stress_level, dm.confidence, p))

----------------------------------------------------------------------------
(* The Flask routes.                                                       *)

\* An HTTP response: the status and the JSON document of the body
Response(status, json) == [status |-> status, json |-> json]

NoResponse == Response(0, [none |-> TRUE])

\* request.json: the parsed body; a body that does not parse raises
\* werkzeug's BadRequest, which is an Exception.
request_json(b) ==
    IF b.t = "malformed" THEN [raised |-> TRUE, exc |-> "BadRequest", data |-> Null]
                         ELSE [raised |-> FALSE, exc |-> "", data |-> b]

\* return jsonify({'success': True, 'result': result})
Success(result) == Response(200, [success |-> TRUE, result |-> result])

\* Mutant of except_Exception: only TypeError is caught, any other exception
\* leaves the route and Flask answers with its own error page
except_TypeError(e) ==
    IF e = "TypeError" THEN Response(500, [success |-> FALSE, error |-> e])
                       ELSE Response(500, [html |-> "Internal Server Error"])

\* Mutant of except_Exception: an HTTP exception is raised again, and Flask
\* answers with the exception's own status
except_reraise_http(e) ==
    IF e = "BadRequest" THEN Response(400, [html |-> "Bad Request"])
                        ELSE Response(500, [success |-> FALSE, error |-> e])

\* except Exception as e: return jsonify({'success': False, 'error': str(e)}), 500
except_Exception(e) == Response(500, [success |-> FALSE, error |-> e])

\* The try block: data = request.json; result = detector.analyze_mood(data).
\* The frame of the call, or the exception of request.json as a frame.
Try(w, b) ==
    LET rj == request_json(b)
    IN  IF rj.raised THEN Raise(rj.exc) ELSE analyze_mood(w, rj.data)

\* The response of the route analyze_mood, f the outcome of its try block
RouteResponse(f) == IF f.raised THEN except_Exception(f.exc) ELSE Success(f.ret)

\* Mutant of WeightsAfter: the call writes a weight of the shared detector
WeightsAfter_write(w, b) == [w EXCEPT !.typing_speed = Zero]

\* detector.weights after a call of analyze_mood: the method only reads it
WeightsAfter(w, b) == w

\* return jsonify({'status': 'healthy', 'service': 'AI Mood Detector'})
HealthResponse == Response(200, [status |-> "healthy", service |-> "AI Mood Detector"])

----------------------------------------------------------------------------
(* The request bodies the clients send.                                    *)

NumClients == 2
Clients == 1 .. NumClients

\* The members {key: v} for each v of S, and no member (the key is absent)
Opt(key, S) == {EmptyMembers} \cup {key :> v : v \in S}

SmileVals == {Num(-50, 100), Num(50, 100), Num(55, 100), Num(65, 100),
              Num(75, 100), Num(150, 100)}
StressVals == {Num(-20, 100), Num(60, 100), Num(75, 100), Num(150, 100)}
ConfidenceVals == {Num(60, 100), Num(70, 100)}
WpmVals == {Num(40, 1), Num(200, 1)}
AccuracyVals == {Num(-5, 1), Num(50, 1), Num(250, 1)}
VoiceVals == {Num(-1000, 1), Num(40, 1), Num(100000, 1)}

FacialGroups ==
    {Obj(a @@ b @@ c) : a \in Opt("avgSmile", SmileVals \cup {Str}),
                        b \in Opt("avgStressIndicator", StressVals),
                        c \in Opt("facialConfidence", ConfidenceVals)}
TypingGroups ==
    {Obj(a @@ b) : a \in Opt("wpm", WpmVals),
                   b \in Opt("accuracy", AccuracyVals \cup {Null})}
VoiceGroups == {Obj(a) : a \in Opt("avgVoiceLevel", VoiceVals \cup {Str})}

\* Every body of the single-client specification: JSON objects with any
\* subset of the groups and fields, and bodies that are no object
Bodies ==
    {Obj(f @@ t @@ v) : f \in Opt("facial", FacialGroups \cup {Null}),
                        t \in Opt("typing", TypingGroups),
                        v \in Opt("voice", VoiceGroups \cup {Arr})}
    \cup {Malformed, Null, Arr}

\* The bodies of the concurrent specification
ServerBodies ==
    {Obj(EmptyMembers),
     Obj(("facial" :> Obj(("avgSmile" :> Num(9, 10)) @@ ("avgStressIndicator" :> Num(1, 10))
                          @@ ("facialConfidence" :> Num(8, 10))))
         @@ ("typing" :> Obj(("wpm" :> Num(60, 1)) @@ ("accuracy" :> Num(95, 1))))
         @@ ("voice" :> Obj("avgVoiceLevel" :> Num(40, 1)))),
     Obj("facial" :> Obj(("avgSmile" :> Num(1, 10)) @@ ("avgStressIndicator" :> Num(9, 10))
                         @@ ("facialConfidence" :> Num(7, 10)))),
     Obj("typing" :> Obj("wpm" :> Str)),
     Malformed}

----------------------------------------------------------------------------
(* The server: one detector, and per client the request in flight.         *)

TypeOK ==
    /\ pc \in [Clients -> {"idle", "analyze", "health", "done_analyze", "done_health"}]
    /\ DOMAIN body = Clients
    /\ DOMAIN frame = Clients
    /\ DOMAIN response = Clients

\* detector = MoodDetector(); no request in flight
Init ==
    /\ weights = InitWeights
    /\ pc = [c \in Clients |-> "idle"]
    /\ body = [c \in Clients |-> Null]
    /\ frame = [c \in Clients |-> NoFrame]
    /\ response = [c \in Clients |-> NoResponse]

\* Client c sends POST /api/analyze with body b
PostAnalyze(c, b) ==
    /\ pc[c] = "idle"
    /\ pc' = [pc EXCEPT ![c] = "analyze"]
    /\ body' = [body EXCEPT ![c] = b]
    /\ UNCHANGED <<weights, frame, response>>

\* The route analyze_mood handles the request of client c
route_analyze_mood(c) ==
    /\ pc[c] = "analyze"
    /\ frame' = [frame EXCEPT ![c] = Try(weights, body[c])]
    /\ response' = [response EXCEPT ![c] = RouteResponse(frame'[c])]
    /\ weights' = WeightsAfter(weights, body[c])
    /\ pc' = [pc EXCEPT ![c] = "done_analyze"]
    /\ UNCHANGED body

\* Client c sends GET /api/health
GetHealth(c) ==
    /\ pc[c] = "idle"
    /\ pc' = [pc EXCEPT ![c] = "health"]
    /\ UNCHANGED <<weights, body, frame, response>>

\* The route health handles the request of client c
health(c) ==
    /\ pc[c] = "health"
    /\ response' = [response EXCEPT ![c] = HealthResponse]
    /\ pc' = [pc EXCEPT ![c] = "done_health"]
    /\ UNCHANGED <<weights, body, frame>>

\* Client c has read its response and may send the next request
Receive(c) ==
    /\ pc[c] \in {"done_analyze", "done_health"}
    /\ pc' = [pc EXCEPT ![c] = "idle"]
    /\ body' = [body EXCEPT ![c] = Null]
    /\ frame' = [frame EXCEPT ![c] = NoFrame]
    /\ response' = [response EXCEPT ![c] = NoResponse]
    /\ UNCHANGED weights

\* One client, every body of Bodies: the scoring function on all its inputs
Next ==
    \/ \E b \in Bodies : PostAnalyze(1, b)
    \/ route_analyze_mood(1)
    \/ GetHealth(1)
    \/ health(1)
    \/ Receive(1)

Spec == Init /\ [][Next]_vars

\* All clients concurrently, the bodies of ServerBodies
NextServer ==
    \/ \E c \in Clients : \E b \in ServerBodies : PostAnalyze(c, b)
    \/ \E c \in Clients : route_analyze_mood(c)
    \/ \E c \in Clients : GetHealth(c)
    \/ \E c \in Clients : health(c)
    \/ \E c \in Clients : Receive(c)

SpecServer == Init /\ [][NextServer]_vars

----------------------------------------------------------------------------
(* Properties.                                                             *)

\* The request of client c has been answered by the route analyze_mood
Done(c) == pc[c] = "done_analyze"

\* ... and analyze_mood returned a result
Returned(c) == Done(c) /\ ~frame[c].raised

\* Field key of group g is present in body b
Present(b, g, key) ==
    /\ b.t = "obj"
    /\ g \in DOMAIN b.m
    /\ b.m[g].t = "obj"
    /\ key \in DOMAIN b.m[g].m

\* The number of field key of group g of body b, or default when it is absent
ValueOr(b, g, key, default) ==
    IF Present(b, g, key) THEN b.m[g].m[key].v ELSE default

\* b is a JSON object whose groups, where present, are objects and whose
\* fields, where present, are numbers
WellFormed(b) ==
    /\ b.t = "obj"
    /\ \A g \in DOMAIN b.m :
          /\ b.m[g].t = "obj"
          /\ \A key \in DOMAIN b.m[g].m : b.m[g].m[key].t = "num"

\* C1: whenever analyze_mood returns a result, the returned stressLevel is an
\* integer between 0 and 100, with or without an override.
C1_StressLevelRange ==
    \A c \in Clients :
        Returned(c) =>
            /\ frame[c].ret.stressLevel \in 0 .. 100
            /\ response[c].json.result.stressLevel \in 0 .. 100

\* C1 witness: the happy override fired on a step-6 level below 20 (the floor
\* at 0 decided the result).
C1_Witness ==
    \E c \in Clients :
        /\ Returned(c)
        /\ RGt(frame[c].facial_confidence, Rat(6, 10))
        /\ RGt(frame[c].scores.smile_score, Rat(7, 10))
        /\ frame[c].s6 < 20
        /\ frame[c].ret.stressLevel = 0

\* The probability of mood m among the unrounded probabilities p
ProbOf(m, p) ==
    IF m = "happy" THEN p.happy_prob
    ELSE IF m = "stressed" THEN p.stressed_prob
    ELSE p.neutral_prob

\* C2: in every returned result, confidence is the unrounded probability of
\* the returned mood, also when the facial-confidence override set the mood.
C2_ConfidenceOfReturnedMood ==
    \A c \in Clients :
        Returned(c) =>
            frame[c].ret.confidence = ProbOf(frame[c].ret.mood, frame[c].probs)

\* C3: for every numeric input the total is strictly positive (no division
\* by zero), each probability is in [0,1] and the three add up to 1.
C3_Distribution ==
    \A c \in Clients :
        /\ Done(c) => frame[c].exc # "ZeroDivisionError"
        /\ Done(c) /\ WellFormed(body[c]) => ~frame[c].raised
        /\ Returned(c) =>
              LET p == frame[c].probs
              IN  /\ RGt(frame[c].total, Zero)
                  /\ \A x \in {p.happy_prob, p.stressed_prob, p.neutral_prob} :
                        RLe(Zero, x) /\ RLe(x, One)
                  /\ RAdd(RAdd(p.happy_prob, p.stressed_prob), p.neutral_prob) = One

\* C3 witness: a result for inputs outside [0,1] on both sides (avgSmile
\* negative, avgStressIndicator above 1).
C3_Witness ==
    \E c \in Clients :
        /\ Returned(c)
        /\ RLt(ValueOr(body[c], "facial", "avgSmile", One), Zero)
        /\ RGt(ValueOr(body[c], "facial", "avgStressIndicator", Zero), One)
        /\ RLt(Zero, frame[c].probs.happy_prob)

\* C4: with facialConfidence > 0.6 the override is an else-if (happy and
\* minus 20 floored at 0 when smile_score > 0.7, otherwise stressed and plus 15
\* capped at 100 when stress_score > 0.7); in every other case the step-5 mood
\* and the clamped step-6 stress level are returned unchanged.
C4_Override ==
    \A c \in Clients :
        Returned(c) =>
            LET f == frame[c]
                s6 == f.s6
                confident == RGt(f.facial_confidence, Rat(6, 10))
            IN  /\ s6 \in 0 .. 100
                /\ f.mood5 = DetermineMood(f.probs, f.scores).mood
                /\ IF confident /\ RGt(f.scores.smile_score, Rat(7, 10))
                   THEN /\ f.ret.mood = "happy"
                        /\ f.ret.stressLevel = (IF s6 - 20 < 0 THEN 0 ELSE s6 - 20)
                   ELSE IF confident /\ RGt(f.scores.stress_score, Rat(7, 10))
                   THEN /\ f.ret.mood = "stressed"
                        /\ f.ret.stressLevel = (IF s6 + 15 > 100 THEN 100 ELSE s6 + 15)
                   ELSE /\ f.ret.mood = f.mood5
                        /\ f.ret.stressLevel = s6

\* C4 witness: both scores above 0.7 with facialConfidence > 0.6, and the
\* step-5 mood was not happy.
C4_Witness ==
    \E c \in Clients :
        /\ Returned(c)
        /\ RGt(frame[c].facial_confidence, Rat(6, 10))
        /\ RGt(frame[c].scores.smile_score, Rat(7, 10))
        /\ RGt(frame[c].scores.stress_score, Rat(7, 10))
        /\ frame[c].mood5 # "happy"
        /\ frame[c].ret.mood = "happy"

\* C5: a JSON object with any subset of groups and fields absent is scored
\* without failure, as if each absent field had its default (0.5, 0.5, 0, 0,
\* 0, 50); the empty object gives the scores 0.5, 0.5, 0, 0 and a success.
C5_Defaults ==
    \A c \in Clients :
        Done(c) /\ WellFormed(body[c]) =>
            LET b == body[c]
                sc == Scores(ValueOr(b, "facial", "avgSmile", Rat(5, 10)),
                             ValueOr(b, "facial", "avgStressIndicator", Rat(5, 10)),
                             ValueOr(b, "typing", "wpm", Zero),
                             ValueOr(b, "typing", "accuracy", Zero))
            IN  /\ ~frame[c].raised
                /\ response[c].status = 200
                /\ response[c].json = [success |-> TRUE, result |-> frame[c].ret]
                /\ frame[c].scores = sc
                /\ frame[c].facial_confidence = ValueOr(b, "facial", "facialConfidence", Zero)
                /\ frame[c].s6 = StressLevel(sc, ValueOr(b, "voice", "avgVoiceLevel", Rat(50, 1)))
                /\ b = Obj(EmptyMembers) =>
                      frame[c].scores = [smile_score |-> Rat(1, 2), stress_score |-> Rat(1, 2),
                                         typing_score |-> Zero, accuracy_score |-> Zero]

\* C5 witness: the empty object has been answered with a success.
C5_Witness ==
    \E c \in Clients :
        /\ Done(c)
        /\ body[c] = Obj(EmptyMembers)
        /\ response[c].status = 200
        /\ response[c].json.success

\* C6: every answered POST /api/analyze is either 200 with success = true and
\* a complete result, or, after an exception, 500 with success = false, the
\* error message and no result; the detector is unchanged.
C6_TwoResponses ==
    /\ weights = InitWeights
    /\ \A c \in Clients :
          Done(c) =>
              LET r == response[c]
              IN  IF frame[c].raised
                  THEN /\ r.status = 500
                       /\ DOMAIN r.json = {"success", "error"}
                       /\ r.json.success = FALSE
                       /\ r.json.error = frame[c].exc
                  ELSE /\ r.status = 200
                       /\ DOMAIN r.json = {"success", "result"}
                       /\ r.json.success = TRUE
                       /\ DOMAIN r.json.result =
                              {"mood", "stressLevel", "confidence", "probabilities"}
                       /\ DOMAIN r.json.result.probabilities =
                              {"happy", "stressed", "neutral"}
                       /\ r.json.result.mood \in {"happy", "stressed", "neutral"}

\* C6 witness: a request whose scoring raised (a group that is no object)
\* has been answered.
C6_Witness ==
    \E c \in Clients :
        /\ Done(c)
        /\ frame[c].exc = "AttributeError"
        /\ body[c].t = "obj"
        /\ response[c].status = 500

\* C7 as stated: a malformed body is answered with a client error (4xx).
C7_MalformedIsClientError ==
    \A c \in Clients :
        Done(c) /\ body[c].t = "malformed" => response[c].status \in 400 .. 499

\* C7 amended: a malformed body is answered with HTTP 500, success = false
\* and the parser's failure as the error.
C7_MalformedIsServerError ==
    \A c \in Clients :
        Done(c) /\ body[c].t = "malformed" =>
            /\ response[c].status = 500
            /\ response[c].json = [success |-> FALSE, error |-> "BadRequest"]

\* C7 witness: a malformed body has been answered.
C7_Witness ==
    \E c \in Clients : Done(c) /\ body[c].t = "malformed" /\ response[c].status = 500

\* C8: under every interleaving of analyze and health requests the detector's
\* weights never change, two answered requests with the same body carry the
\* same response, and every health response is the fixed payload with 200.
C8_NoSharedState ==
    /\ weights = InitWeights
    /\ \A c1, c2 \in Clients :
          Done(c1) /\ Done(c2) /\ body[c1] = body[c2] => response[c1] = response[c2]
    /\ \A c \in Clients :
          pc[c] = "done_health" =>
              /\ response[c].status = 200
              /\ response[c].json = [status |-> "healthy", service |-> "AI Mood Detector"]

\* C8 witness: two clients hold answers to the same scorable body.
C8_Witness ==
    \E c1, c2 \in Clients :
        /\ c1 # c2
        /\ Done(c1) /\ Done(c2)
        /\ body[c1] = body[c2]
        /\ response[c1].status = 200
        /\ response[c1].json.result.mood = "stressed"

\* The unrounded happy_prob for the scores sc with smile_score from avg_smile
HappyProbWith(w, sc, avg_smile) ==
    LET sc2 == [sc EXCEPT !.smile_score = normalize(avg_smile)]
        happy == happy_raw(w, sc2)
        stressed == stressed_raw(w, sc2)
    IN  Probabilities(happy, stressed, Total(happy, stressed)).happy_prob

\* C9: of two payloads that differ only in avgSmile, the one with the larger
\* avgSmile has the larger or equal happy_prob.
C9_MonotoneInSmile ==
    \A c \in Clients :
        Returned(c) /\ Present(body[c], "facial", "avgSmile") =>
            \A s2 \in SmileVals :
                RLe(body[c].m["facial"].m["avgSmile"].v, s2.v) =>
                    RLe(frame[c].probs.happy_prob,
                        HappyProbWith(weights, frame[c].scores, s2.v))

\* C9 witness: a result for avgSmile = 0.5 whose happy_prob is strictly below
\* that of the same payload with avgSmile = 0.75.
C9_Witness ==
    \E c \in Clients :
        /\ Returned(c)
        /\ Present(body[c], "facial", "avgSmile")
        /\ body[c].m["facial"].m["avgSmile"].v = Rat(1, 2)
        /\ RLt(frame[c].probs.happy_prob,
               HappyProbWith(weights, frame[c].scores, Rat(3, 4)))

\* C10: a returned mood is happy, stressed or neutral; happy only with
\* smile_score > 0.5 and stressed only with stress_score > 0.6.
C10_MoodAndScores ==
    \A c \in Clients :
        Returned(c) =>
            LET f == frame[c]
            IN  /\ f.ret.mood \in {"happy", "stressed", "neutral"}
                /\ f.ret.mood = "happy" => RGt(f.scores.smile_score, Rat(5, 10))
                /\ f.ret.mood = "stressed" => RGt(f.scores.stress_score, Rat(6, 10))

\* C10 witness: happy returned by the third rule alone (smile_score between
\* 0.5 and 0.6).
C10_Witness ==
    \E c \in Clients :
        /\ Returned(c)
        /\ frame[c].ret.mood = "happy"
        /\ RLe(frame[c].scores.smile_score, Rat(6, 10))

====
